---- MODULE Spec2Model ----
(***************************************************************************)
(* State-machine model of model/unet.py: the UNet wrapper object, its      *)
(* configuration reads, the layer-shape arithmetic of build(), the two     *)
(* callbacks, the fit loop of train() and the history-persistence step.    *)
(***************************************************************************)
EXTENDS Integers, Sequences, FiniteSets, TLC

VARIABLES
    config,         \* Config.config: the set of keys present and the epochs value
    constructed,    \* TRUE once UNet.__init__ has returned
    attrs,          \* attributes __init__ copied out of the configuration
    data,           \* train_input, train_output, test_input, test_output
    model,          \* self.model
    checkpoint_callback,
    tensorboard_callback,
    pc,             \* "idle", or "fit" while train() is inside the fit loop
    run,            \* the current / last fit loop: epochs done, losses, artifacts
    fs,             \* checkpoint artifacts on disk
    history_pkl,    \* <model_path>/<experiment_name>/model_history.pkl
    reads,          \* reads[method][key]: configuration reads made by each method
    fitted,         \* epochs run so far, over all fit loops
    summary_writer, \* the process-wide default summary writer
    lastCall        \* the last public method called and how it ended

vars == <<config, constructed, attrs, data, model, checkpoint_callback,
          tensorboard_callback, pc, run, fs, history_pkl, reads, fitted,
          summary_writer, lastCall>>

\* ------------------------------------------------------------------ bounds

MaxEpochs == 2
MaxBuilds == 2
MaxFitEpochs == 4

\* ------------------------------------------------------------- vocabulary

None == [ none |-> TRUE ]

InitKeys == << "train.validation_split", "model.model_path", "model.experiment_name",
               "train.epochs", "train.train_batch_size", "train.val_batch_size" >>

BuildKeys == << "train.initial_learning_rate", "train.decay_steps", "train.decay_rate" >>

Range(s) == { s[i] : i \in DOMAIN s }

Keys == Range(InitKeys) \cup Range(BuildKeys)

Methods == { "__init__", "load_data", "build", "checkpoint", "tensorboard",
             "train", "evaluate" }

\* Losses are exact binary fractions, counted in units of 1/32; a diverged
\* epoch reports NaN.
Float(n) == [ n |-> n ]
NaN == [ nan |-> TRUE ]
Inf == [ inf |-> TRUE ]
\* The logs an epoch may report: improving, worsening, diverged validation.
EpochLogs == { [ loss |-> Float(1), val_loss |-> Float(3) ],
               [ loss |-> Float(3), val_loss |-> Float(1) ],
               [ loss |-> Float(3), val_loss |-> NaN ] }
Timestamps == { "20200101-000000", "20200101-000001" }

\* --------------------------------------------------------- configuration

\* Config.config[section][key] for each key of `keys` in order: the reads
\* made, and whether a KeyError stopped them.
RECURSIVE ReadConfig(_, _, _)
ReadConfig(cfg, keys, i) ==
    IF i > Len(keys) THEN [ok |-> TRUE, read |-> Range(keys)]
    ELSE IF keys[i] \notin cfg.keys
         THEN [ok |-> FALSE, read |-> { keys[j] : j \in 1..i }]
         ELSE ReadConfig(cfg, keys, i + 1)

Count(rd, method, got) ==
    [rd EXCEPT ![method] = [k \in Keys |-> IF k \in got THEN @[k] + 1 ELSE @[k]]]

\* ------------------------------------------------------- layer arithmetic

ShapeError == << >>

\* The element of a one-element set. Layers are applied as
\* Only({ F(s) : s \in { x } }), which evaluates the input x once.
Only(S) == CHOOSE y \in S : TRUE

Conv2D(x, num_filters, kernel_size, padding) ==
    LET F(s) ==
            IF s = ShapeError THEN ShapeError
            ELSE IF padding = "SAME" THEN << s[1], s[2], num_filters >>
            ELSE IF s[1] < kernel_size \/ s[2] < kernel_size THEN ShapeError
            ELSE << s[1] - kernel_size + 1, s[2] - kernel_size + 1, num_filters >>
    IN  Only({ F(v) : v \in { x } })

BatchNormalization(x) == x

Activation(x) == x

_one_cnn_layer(input, num_filters, kernel_size, padding) ==
    Activation(BatchNormalization(Conv2D(input, num_filters, kernel_size, padding)))

MaxPooling2D(x, pool_size) ==
    LET F(s) ==
            IF s = ShapeError \/ s[1] < pool_size \/ s[2] < pool_size THEN ShapeError
            ELSE << s[1] \div pool_size, s[2] \div pool_size, s[3] >>
    IN  Only({ F(v) : v \in { x } })

UpSampling2D(x, size) ==
    LET F(s) == IF s = ShapeError THEN ShapeError ELSE << s[1] * size, s[2] * size, s[3] >>
    IN  Only({ F(v) : v \in { x } })

Concatenate(a, b) ==
    LET F(s) ==
            IF s[1] = ShapeError \/ s[2] = ShapeError THEN ShapeError
            ELSE IF s[1][1] # s[2][1] \/ s[1][2] # s[2][2] THEN ShapeError
            ELSE << s[1][1], s[1][2], s[1][3] + s[2][3] >>
    IN  Only({ F(v) : v \in { << a, b >> } })

\* As Conv2DTranspose, with padding="SAME" in place of "VALID".
Conv2DTransposeSame(x, num_filters, kernel_size) ==
    LET F(s) == IF s = ShapeError THEN ShapeError ELSE << s[1], s[2], num_filters >>
    IN  Only({ F(v) : v \in { x } })

Conv2DTranspose(x, num_filters, kernel_size) ==
    LET F(s) ==
            IF s = ShapeError THEN ShapeError
            ELSE << s[1] + kernel_size - 1, s[2] + kernel_size - 1, num_filters >>
    IN  Only({ F(v) : v \in { x } })

\* Three _one_cnn_layer calls in a row; only the first one's kernel and
\* padding vary.
Block(x, num_filters, first_kernel, first_padding) ==
    _one_cnn_layer(
        _one_cnn_layer(
            _one_cnn_layer(x, num_filters, first_kernel, first_padding),
            num_filters, 3, "SAME"),
        num_filters, 3, "SAME")

InputShape == << 50, 50, 2 >>

\* The shapes after the down-sampling half of _create_model.
Encoder ==
    LET conv1 == Block(InputShape, 64, 3, "VALID")
        F1(c1) ==
            LET F2(c2) ==
                    LET F3(c3) ==
                            [ conv1 |-> c1, conv2 |-> c2, conv3 |-> c3,
                              pool1 |-> MaxPooling2D(c1, 2),
                              pool2 |-> MaxPooling2D(c2, 2),
                              pool3 |-> MaxPooling2D(c3, 2),
                              conv4 |-> Block(MaxPooling2D(c3, 2), 512, 3, "SAME") ]
                    IN  Only({ F3(v) : v \in { Block(MaxPooling2D(c2, 2), 256, 3, "SAME") } })
            IN  Only({ F2(v) : v \in { Block(MaxPooling2D(c1, 2), 128, 3, "SAME") } })
    IN  Only({ F1(v) : v \in { conv1 } })

\* The shapes after the up-sampling half and the final layers.
Decoder(enc) ==
    LET up5 == UpSampling2D(enc.conv4, 2)
        merge5 == Concatenate(enc.conv3, up5)
        conv5 == Block(merge5, 256, 2, "SAME")
        up6 == UpSampling2D(conv5, 2)
        merge6 == Concatenate(enc.conv2, up6)
        conv6 == Block(merge6, 128, 2, "SAME")
        up7 == UpSampling2D(conv6, 2)
        merge7 == Concatenate(enc.conv1, up7)
        conv7 == Block(merge7, 64, 2, "SAME")
        conv8 == Conv2DTranspose(conv7, 1, 3)
        merge9 == Concatenate(InputShape, conv8)
        conv10 == Activation(Conv2D(merge9, 1, 1, "VALID"))
    IN  [ up5 |-> up5, up6 |-> up6, up7 |-> up7, conv8 |-> conv8, conv10 |-> conv10 ]

\* Model(inputs=input_layer, outputs=conv10): a graph, not yet compiled; a
\* layer whose input shapes do not fit raises while the graph is assembled.
\* `trace` keeps the spatial size after the input, conv1, the three pools,
\* the three up-samplings and the transposed convolution.
_create_model ==
    LET G(enc) ==
            LET H(dec) ==
                    IF dec.conv10 = ShapeError THEN None
                    ELSE [ input_shape |-> InputShape, output_shape |-> dec.conv10,
                           trace |-> << InputShape[1], enc.conv1[1], enc.pool1[1],
                                        enc.pool2[1], enc.pool3[1], dec.up5[1],
                                        dec.up6[1], dec.up7[1], dec.conv8[1] >>,
                           compiled |-> FALSE, weights |-> 0 ]
            IN  Only({ H(v) : v \in { Decoder(enc) } })
    IN  Only({ G(v) : v \in { Encoder } })

\* ------------------------------------------------------------- formatting

Digit(d) == << "0", "1", "2", "3", "4", "5", "6", "7", "8", "9" >>[d + 1]

RECURSIVE Digits(_)
Digits(n) == IF n < 10 THEN << Digit(n) >> ELSE Digits(n \div 10) \o << Digit(n % 10) >>

RECURSIVE ZeroPad(_, _)
ZeroPad(s, width) == IF Len(s) >= width THEN s ELSE ZeroPad(<< "0" >> \o s, width)

RECURSIVE Pow10(_)
Pow10(k) == IF k = 0 THEN 1 ELSE 10 * Pow10(k - 1)

\* format(n, "0<width>d")
FormatInt(n, width) == ZeroPad(Digits(n), width)

\* format(x, ".<precision>f") of the float x.n/32: correctly rounded to that
\* many decimals, an exact tie going to the even digit; a NaN prints as nan.
FormatFloat(x, precision) ==
    IF x = NaN THEN << "n", "a", "n" >>
    ELSE LET unit == Pow10(5 - precision)
             t == x.n * 3125
             q == t \div unit
             r == t % unit
             d == IF 2 * r > unit \/ (2 * r = unit /\ q % 2 = 1) THEN q + 1 ELSE q
         IN  Digits(d \div Pow10(precision)) \o << "." >>
                \o ZeroPad(Digits(d % Pow10(precision)), precision)

\* "weights-{epoch:02d}-{loss:.2f}-{val_loss:.4f}"
WeightsTemplateLoss2 ==
    << [ lit |-> << "w", "e", "i", "g", "h", "t", "s", "-" >> ],
       [ field |-> "epoch", type |-> "d", digits |-> 2 ],
       [ lit |-> << "-" >> ],
       [ field |-> "loss", type |-> "f", digits |-> 2 ],
       [ lit |-> << "-" >> ],
       [ field |-> "val_loss", type |-> "f", digits |-> 4 ] >>

\* "weights-{epoch:02d}-{loss:.4f}-{val_loss:.4f}"
WeightsTemplate ==
    << [ lit |-> << "w", "e", "i", "g", "h", "t", "s", "-" >> ],
       [ field |-> "epoch", type |-> "d", digits |-> 2 ],
       [ lit |-> << "-" >> ],
       [ field |-> "loss", type |-> "f", digits |-> 4 ],
       [ lit |-> << "-" >> ],
       [ field |-> "val_loss", type |-> "f", digits |-> 4 ] >>

\* template.format(**values)
RECURSIVE Format(_, _, _)
Format(template, values, i) ==
    IF i > Len(template) THEN << >>
    ELSE LET t == template[i]
             text == IF "lit" \in DOMAIN t THEN t.lit
                     ELSE IF t.type = "d" THEN FormatInt(values[t.field], t.digits)
                     ELSE FormatFloat(values[t.field], t.digits)
         IN  text \o Format(template, values, i + 1)

\* os.path.join(self.model_path, self.experiment_name, "checkpoints", <template>)
CheckpointDir(a) == << a.model_path, a.experiment_name, "checkpoints" >>

\* os.path.join(self.model_path, "logs", self.experiment_name, <timestamp>)
LogDir(a, now) == << a.model_path, "logs", a.experiment_name, now >>

HistoryPath(a) == << a.model_path, a.experiment_name, "model_history.pkl" >>

\* --------------------------------------------------------------- callbacks

\* ModelCheckpoint(filepath, monitor='val_loss', save_best_only=True,
\* save_weights_only=False, mode='auto', save_freq="epoch", period=1).
\* `seen` is a history variable: the monitored values shown to this object.
ModelCheckpoint(a) ==
    [ dir |-> CheckpointDir(a), template |-> WeightsTemplate,
      monitor |-> "val_loss", save_best_only |-> TRUE,
      save_weights_only |-> FALSE, period |-> 1, epochs_since_last_save |-> 0,
      best |-> Inf, model |-> None, seen |-> << >> ]

TensorBoard(a, now) == [ log_dir |-> LogDir(a, now), histogram_freq |-> 1, model |-> None ]

\* As MonitorOp, with np.less_equal.
MonitorOpLessEqual(current, best) ==
    /\ current # NaN
    /\ best # NaN
    /\ IF best = Inf THEN TRUE ELSE current.n <= best.n

\* mode 'auto' on a loss: np.less(current, best); false whenever a NaN is compared.
MonitorOp(current, best) ==
    /\ current # NaN
    /\ best # NaN
    /\ IF best = Inf THEN TRUE ELSE current.n < best.n

\* ModelCheckpoint.on_epoch_end(epoch, logs): the callback after the call and
\* the artifact it saved (<< >> when it saved none). epoch counts from 0.
OnEpochEnd(cb, epoch, loss, val_loss) ==
    LET since == cb.epochs_since_last_save + 1
        due == since >= cb.period
        current == IF cb.monitor = "val_loss" THEN val_loss ELSE loss
        better == IF cb.save_best_only THEN MonitorOp(current, cb.best) ELSE TRUE
        path == cb.dir \o << Format(cb.template,
                                     [ epoch |-> epoch + 1, loss |-> loss,
                                       val_loss |-> val_loss ], 1) >>
    IN  IF ~due
        THEN [ cb |-> [cb EXCEPT !.epochs_since_last_save = since], saved |-> << >>,
               consulted |-> FALSE ]
        ELSE [ cb |-> [cb EXCEPT !.epochs_since_last_save = 0,
                                 !.best = IF better /\ cb.save_best_only THEN current ELSE @,
                                 !.seen = Append(@, current)],
               saved |-> IF better THEN << path >> ELSE << >>,
               consulted |-> TRUE ]

\* -------------------------------------------------------- train(), evaluate()

\* As FitPrecheck, the generators built before self.model is looked at.
FitPrecheckDataFirst(m, d, ckpt, tb) ==
    IF d.train_input = None \/ d.train_output = None THEN "uninitialized_data"
    ELSE IF m = None THEN "uninitialized_model"
    ELSE IF ~m.compiled THEN "uncompiled_model"
    ELSE IF ckpt = None \/ tb = None THEN "null_callback"
    ELSE "ok"

\* As FitPrecheck, fit(...) not insisting on a compiled model.
FitPrecheckNoCompile(m, d, ckpt, tb) ==
    IF m = None THEN "uninitialized_model"
    ELSE IF d.train_input = None \/ d.train_output = None THEN "uninitialized_data"
    ELSE IF ckpt = None \/ tb = None THEN "null_callback"
    ELSE "ok"

\* What self.model.fit(...) of train() meets first, in evaluation order: the
\* attribute lookup on self.model, the two flow(...) generators over the
\* training tensors, the compile check, the callback list.
FitPrecheck(m, d, ckpt, tb) ==
    IF m = None THEN "uninitialized_model"
    ELSE IF d.train_input = None \/ d.train_output = None THEN "uninitialized_data"
    ELSE IF ~m.compiled THEN "uncompiled_model"
    ELSE IF ckpt = None \/ tb = None THEN "null_callback"
    ELSE "ok"

\* As PredictPrecheck, predict(None) returning an empty prediction.
PredictPrecheckNoData(m, d) == IF m = None THEN "uninitialized_model" ELSE "ok"

\* self.model.predict(self.test_input)
PredictPrecheck(m, d) ==
    IF m = None THEN "uninitialized_model"
    ELSE IF d.test_input = None THEN "uninitialized_data"
    ELSE "ok"

\* The History object fit(...) returns.
History == [ history |-> TRUE ]

\* open(path, mode): a handle, or the error of a missing file in read mode.
Open(file, mode) ==
    IF mode = "r" /\ file = "absent" THEN [ error |-> "FileNotFoundError" ]
    ELSE [ handle |-> mode ]

\* pickle.dump(obj, file): file must offer write(), and be open for writing.
PickleDump(obj, file) ==
    IF file = History THEN "TypeError"
    ELSE IF file.handle = "r" THEN "UnsupportedOperation"
    ELSE "ok"

\* with open(<model_history.pkl>, "wb") as f: pickle.dump(model_history, f)
PersistHistoryWritten(file) ==
    LET f == Open(file, "wb")
    IN  [ outcome |-> PickleDump(History, f), file |-> "history" ]

\* with open(<model_history.pkl>) as f: pickle.dump(f, model_history)
\* The outcome and the file afterwards.
PersistHistory(file) ==
    LET f == Open(file, "r")
    IN  IF f = [ error |-> "FileNotFoundError" ]
        THEN [ outcome |-> f.error, file |-> file ]
        ELSE [ outcome |-> PickleDump(f, History), file |-> file ]

\* DataLoader().main(show_data): four tensors, batch x height x width x channel.
DataLoaderMain ==
    [ train_input |-> [ shape |-> << 10, 50, 50, 2 >> ],
      train_output |-> [ shape |-> << 10, 50, 50, 1 >> ],
      test_input |-> [ shape |-> << 10, 50, 50, 2 >> ],
      test_output |-> [ shape |-> << 10, 50, 50, 1 >> ] ]

NoData == [ train_input |-> None, train_output |-> None,
            test_input |-> None, test_output |-> None ]

\* The record of one train() call: the weights it started from, the epochs
\* done, each epoch's losses, the artifacts saved and the epochs at which
\* the checkpoint callback compared the monitored value.
NoRun == [ weights0 |-> 0, epoch |-> 0, loss |-> << >>, val |-> << >>,
           written |-> << >>, consults |-> 0 ]

NoReads == [ m \in Methods |-> [ k \in Keys |-> 0 ] ]

Call(op, outcome) == [ op |-> op, outcome |-> outcome ]

\* ------------------------------------------------------------------ states

Configs ==
    { [ keys |-> ks, epochs |-> e ] :
        ks \in { Keys } \cup { Keys \ { k } : k \in Keys }, e \in 0..MaxEpochs }

Init ==
    /\ config \in { c \in Configs : "train.epochs" \in c.keys \/ c.epochs = 0 }
    /\ constructed = FALSE
    /\ attrs = None
    /\ data = NoData
    /\ model = None
    /\ checkpoint_callback = None
    /\ tensorboard_callback = None
    /\ pc = "idle"
    /\ run = NoRun
    /\ fs = { }
    /\ history_pkl \in { "absent", "foreign" }
    /\ reads = NoReads
    /\ fitted = 0
    /\ summary_writer = None
    /\ lastCall = Call("none", "none")

\* UNet.__init__
Construct ==
    /\ lastCall.op = "none"
    /\ LET r == ReadConfig(config, InitKeys, 1)
       IN  /\ reads' = Count(reads, "__init__", r.read)
           /\ constructed' = r.ok
           /\ attrs' = IF r.ok
                       THEN [ model_path |-> "<model_path>",
                              experiment_name |-> "<experiment_name>",
                              epochs |-> config.epochs ]
                       ELSE None
           /\ lastCall' = Call("__init__", IF r.ok THEN "ok" ELSE "KeyError")
    /\ UNCHANGED << config, data, model, checkpoint_callback, tensorboard_callback, pc,
                    run, fs, history_pkl, fitted, summary_writer >>

Idle == constructed /\ pc = "idle"

\* UNet.load_data
LoadData ==
    /\ Idle
    /\ data' = DataLoaderMain
    /\ lastCall' = Call("load_data", "ok")
    /\ UNCHANGED << config, constructed, attrs, model, checkpoint_callback,
                    tensorboard_callback, pc, run, fs, history_pkl, reads, fitted,
                    summary_writer >>

\* As BuildResult, the learning-rate schedule taken from defaults instead of
\* the configuration.
BuildResultNoConfig(cfg, old) ==
    LET F(m) ==
            IF m = None THEN [ model |-> old, read |-> { }, outcome |-> "ValueError" ]
            ELSE [ model |-> [m EXCEPT !.compiled = TRUE], read |-> { }, outcome |-> "ok" ]
    IN  Only({ F(v) : v \in { _create_model } })

\* UNet.build: the graph is assigned before the learning-rate keys are read.
BuildResult(cfg, old) ==
    LET F(s) ==
            IF s.m = None THEN [ model |-> old, read |-> { }, outcome |-> "ValueError" ]
            ELSE IF ~s.r.ok THEN [ model |-> s.m, read |-> s.r.read, outcome |-> "KeyError" ]
            ELSE [ model |-> [s.m EXCEPT !.compiled = TRUE], read |-> s.r.read,
                   outcome |-> "ok" ]
    IN  Only({ F(v) : v \in { [ m |-> _create_model, r |-> ReadConfig(cfg, BuildKeys, 1) ] } })

Build ==
    /\ Idle
    /\ reads["build"][BuildKeys[1]] < MaxBuilds
    /\ \E b \in { BuildResult(config, model) } :
           /\ model' = b.model
           /\ reads' = Count(reads, "build", b.read)
           /\ lastCall' = Call("build", b.outcome)
    /\ UNCHANGED << config, constructed, attrs, data, checkpoint_callback,
                    tensorboard_callback, pc, run, fs, history_pkl, fitted,
                    summary_writer >>

\* As Checkpoint, the callback made only for a model that exists.
CheckpointNeedsModel ==
    /\ Idle
    /\ checkpoint_callback' = IF model = None THEN None ELSE ModelCheckpoint(attrs)
    /\ lastCall' = Call("checkpoint", IF model = None THEN "uninitialized_model" ELSE "ok")
    /\ UNCHANGED << config, constructed, attrs, data, model, tensorboard_callback, pc,
                    run, fs, history_pkl, reads, fitted, summary_writer >>

\* UNet.checkpoint
Checkpoint ==
    /\ Idle
    /\ checkpoint_callback' = ModelCheckpoint(attrs)
    /\ lastCall' = Call("checkpoint", "ok")
    /\ UNCHANGED << config, constructed, attrs, data, model, tensorboard_callback, pc,
                    run, fs, history_pkl, reads, fitted, summary_writer >>

\* UNet.tensorboard
Tensorboard ==
    /\ Idle
    /\ \E now \in Timestamps :
        /\ summary_writer' = [ log_dir |-> LogDir(attrs, now) ]
        /\ tensorboard_callback' = TensorBoard(attrs, now)
    /\ lastCall' = Call("tensorboard", "ok")
    /\ UNCHANGED << config, constructed, attrs, data, model, checkpoint_callback, pc,
                    run, fs, history_pkl, reads, fitted >>

\* UNet.train up to the first epoch: fit(...) raises, or attaches the
\* callbacks to the model and enters its loop.
TrainBegin ==
    /\ Idle
    /\ fitted + attrs.epochs <= MaxFitEpochs
    /\ LET o == FitPrecheck(model, data, checkpoint_callback, tensorboard_callback)
       IN  IF o = "ok"
           THEN /\ pc' = "fit"
                /\ checkpoint_callback' =
                        [checkpoint_callback EXCEPT !.model = [ attached |-> TRUE ]]
                /\ tensorboard_callback' =
                        [tensorboard_callback EXCEPT !.model = [ attached |-> TRUE ]]
                /\ lastCall' = Call("train", "running")
           ELSE /\ lastCall' = Call("train", o)
                /\ UNCHANGED << pc, checkpoint_callback, tensorboard_callback >>
    /\ run' = IF model = None THEN NoRun ELSE [NoRun EXCEPT !.weights0 = model.weights]
    /\ UNCHANGED << config, constructed, attrs, data, model, fs, history_pkl, reads,
                    fitted, summary_writer >>

\* One epoch of the fit loop: the weights move, the epoch's losses are
\* reported to the callbacks.
FitEpoch ==
    /\ pc = "fit"
    /\ run.epoch < attrs.epochs
    /\ \E logs \in EpochLogs :
        LET e == OnEpochEnd(checkpoint_callback, run.epoch, logs.loss, logs.val_loss)
        IN  /\ checkpoint_callback' = e.cb
            /\ fs' = fs \cup Range(e.saved)
            /\ run' = [ weights0 |-> run.weights0,
                        epoch |-> run.epoch + 1,
                        loss |-> Append(run.loss, logs.loss),
                        val |-> Append(run.val, logs.val_loss),
                        written |-> run.written
                            \o [ i \in DOMAIN e.saved |->
                                    [ epoch |-> run.epoch, path |-> e.saved[i] ] ],
                        consults |-> run.consults + (IF e.consulted THEN 1 ELSE 0) ]
    /\ model' = [model EXCEPT !.weights = @ + 1]
    /\ fitted' = fitted + 1
    /\ UNCHANGED << config, constructed, attrs, data, tensorboard_callback, pc,
                    history_pkl, reads, summary_writer, lastCall >>

\* The rest of UNet.train: fit has returned the history, which is persisted.
TrainEnd ==
    /\ pc = "fit"
    /\ run.epoch = attrs.epochs
    /\ LET p == PersistHistory(history_pkl)
       IN  /\ history_pkl' = p.file
           /\ lastCall' = Call("train", p.outcome)
    /\ pc' = "idle"
    /\ UNCHANGED << config, constructed, attrs, data, model, checkpoint_callback,
                    tensorboard_callback, run, fs, reads, fitted, summary_writer >>

\* UNet.evaluate
Evaluate ==
    /\ Idle
    /\ LET o == PredictPrecheck(model, data)
       IN  lastCall' = Call("evaluate", o)
    /\ UNCHANGED << config, constructed, attrs, data, model, checkpoint_callback,
                    tensorboard_callback, pc, run, fs, history_pkl, reads, fitted,
                    summary_writer >>

Next ==
    \/ Construct
    \/ LoadData
    \/ Build
    \/ Checkpoint
    \/ Tensorboard
    \/ TrainBegin
    \/ FitEpoch
    \/ TrainEnd
    \/ Evaluate

Spec == Init /\ [][Next]_vars

\* ================================================================== claims

Failures == { "uninitialized_model", "uninitialized_data", "uncompiled_model",
              "null_callback" }

HistoryErrors == { "FileNotFoundError", "TypeError" }

\* train() has returned (raised) after its fit loop ran to the end.
FitFinished == lastCall.op = "train" /\ pc = "idle" /\ lastCall.outcome \notin Failures

\* C1: whatever the configuration, after build() the model exists, its input
\* shape is (50,50,2), its output shape (50,50,1), and the spatial size runs
\* 50, 48, 24, 12, 6, 12, 24, 48, 50 along the layer chain.
BuildShapes ==
    /\ lastCall.op = "build" => model # None
    /\ model # None =>
        /\ model.input_shape = << 50, 50, 2 >>
        /\ model.output_shape = << 50, 50, 1 >>
        /\ model.trace = << 50, 48, 24, 12, 6, 12, 24, 48, 50 >>

BuildShapesWitness ==
    /\ lastCall = Call("build", "KeyError")
    /\ model # None
    /\ config.epochs = 2

\* C2: train() on a wrapper whose build() was never called fails with the
\* uninitialized-model condition, whatever else was called before, and runs
\* no training step and writes no checkpoint.
TrainBeforeBuild ==
    (lastCall.op = "train" /\ model = None) =>
        /\ lastCall.outcome = "uninitialized_model"
        /\ pc = "idle"
        /\ run = NoRun
        /\ fitted = 0
        /\ fs = { }

TrainBeforeBuildWitness ==
    /\ lastCall.op = "train"
    /\ model = None
    /\ data = DataLoaderMain
    /\ checkpoint_callback # None
    /\ tensorboard_callback # None

\* C3 as stated: evaluate() without load_data() fails with the
\* uninitialized-data condition, build() called or not.
EvaluateBeforeLoadAsStated ==
    (lastCall.op = "evaluate" /\ data.test_input = None) =>
        lastCall.outcome = "uninitialized_data"

\* C3 amended: evaluate() without load_data() always fails; with the
\* uninitialized-data condition when build() was called, and with the
\* uninitialized-model condition when it was not.
EvaluateBeforeLoad ==
    (lastCall.op = "evaluate" /\ data.test_input = None) =>
        lastCall.outcome =
            IF model = None THEN "uninitialized_model" ELSE "uninitialized_data"

EvaluateBeforeLoadWitness ==
    /\ lastCall = Call("evaluate", "uninitialized_data")
    /\ data.test_input = None
    /\ model # None

\* C4 as stated: every step of constructed, load_data, build, (checkpoint,
\* tensorboard), train, evaluate is required: the stage after a skipped one
\* fails.
LifecycleAsStated ==
    /\ (lastCall.op = "build" /\ data = NoData) => lastCall.outcome # "ok"
    /\ (lastCall.op \in { "checkpoint", "tensorboard" } /\ model = None) =>
            lastCall.outcome # "ok"
    /\ (lastCall.op = "train" /\ pc = "idle"
            /\ (checkpoint_callback = None \/ tensorboard_callback = None)) =>
            lastCall.outcome \in Failures
    /\ (lastCall.op = "evaluate" /\ fitted = 0) => lastCall.outcome # "ok"

\* C4 amended: only train() and evaluate() depend on earlier steps. train()
\* fails unless build() compiled a model and load_data(), checkpoint() and
\* tensorboard() were all called; evaluate() fails unless build() and
\* load_data() were called, and needs no train(). load_data(), checkpoint()
\* and tensorboard() succeed in any state, and build() fails only on a
\* missing learning-rate key.
Lifecycle ==
    /\ (lastCall.op = "train"
            /\ (model = None \/ data.train_input = None \/ checkpoint_callback = None
                    \/ tensorboard_callback = None)) =>
            lastCall.outcome \in Failures
    /\ (lastCall.op = "train" /\ model # None /\ ~model.compiled) =>
            lastCall.outcome \in Failures
    /\ lastCall.op = "evaluate" =>
            (lastCall.outcome = "ok" <=> (model # None /\ data.test_input # None))
    /\ lastCall.op \in { "load_data", "checkpoint", "tensorboard" } =>
            lastCall.outcome = "ok"
    /\ lastCall.op = "build" =>
            lastCall.outcome = IF Range(BuildKeys) \subseteq config.keys
                               THEN "ok" ELSE "KeyError"

LifecycleWitness ==
    /\ lastCall = Call("train", "null_callback")
    /\ model # None
    /\ data = DataLoaderMain
    /\ checkpoint_callback = None
    /\ tensorboard_callback # None

\* C5: after load_data() (10 paired samples), build(), checkpoint() and
\* tensorboard(), with epochs=1, train() completes without raising and a
\* checkpoint file lies under <model_path>/<experiment_name>/checkpoints.
EndToEndTrain ==
    (/\ constructed
     /\ config.epochs = 1
     /\ data = DataLoaderMain
     /\ lastCall.op = "train"
     /\ pc = "idle"
     /\ model # None
     /\ checkpoint_callback # None
     /\ tensorboard_callback # None
     /\ lastCall.outcome \notin Failures) =>
        /\ lastCall.outcome = "ok"
        /\ \E f \in fs : SubSeq(f, 1, 3) = CheckpointDir(attrs)

\* C6 as stated: every required key is read exactly once, by __init__, and
\* no other method reads the configuration; a missing key fails at
\* construction and never later.
ConfigReadOnceAsStated ==
    /\ constructed => \A k \in Keys : reads["__init__"][k] = 1
    /\ \A m \in Methods \ { "__init__" } : \A k \in Keys : reads[m][k] = 0
    /\ lastCall.outcome = "KeyError" => lastCall.op = "__init__"

\* C6 amended: __init__ reads validation_split, model_path, experiment_name,
\* epochs, train_batch_size and val_batch_size exactly once each; the three
\* learning-rate keys are read by build(), at every build() call, and by
\* nothing else; load_data, checkpoint, tensorboard, train and evaluate read
\* no configuration. A missing learning-rate key passes construction and
\* fails at build().
ConfigReads ==
    /\ constructed =>
        /\ \A k \in Range(InitKeys) : reads["__init__"][k] = 1
        /\ Range(InitKeys) \subseteq config.keys
    /\ \A k \in Range(BuildKeys) : reads["__init__"][k] = 0
    /\ \A k \in Range(InitKeys) : reads["build"][k] = 0
    /\ \A m \in Methods \ { "__init__", "build" } : \A k \in Keys : reads[m][k] = 0
    /\ lastCall.op = "build" =>
        /\ reads["build"][BuildKeys[1]] >= 1
        /\ lastCall.outcome = "ok" <=> Range(BuildKeys) \subseteq config.keys
        /\ lastCall.outcome = "ok" =>
            \A k \in Range(BuildKeys) : reads["build"][k] = reads["build"][BuildKeys[1]]
    /\ lastCall.outcome = "KeyError" =>
        \/ lastCall.op = "__init__" /\ ~(Range(InitKeys) \subseteq config.keys)
        \/ lastCall.op = "build" /\ ~(Range(BuildKeys) \subseteq config.keys)

ConfigReadsWitness ==
    /\ constructed
    /\ lastCall = Call("build", "KeyError")
    /\ "train.decay_rate" \notin config.keys
    /\ reads["build"]["train.decay_steps"] = 2

\* ---- Reading a saved artifact's name back.

DigitChars == { Digit(d) : d \in 0..9 }

DigitVal(c) == CHOOSE d \in 0..9 : Digit(d) = c

IsNumber(t) == Len(t) >= 1 /\ \A i \in DOMAIN t : t[i] \in DigitChars

RECURSIVE Num(_)
Num(t) == IF Len(t) = 0 THEN 0 ELSE 10 * Num(SubSeq(t, 1, Len(t) - 1)) + DigitVal(t[Len(t)])

Places(t, c) == { i \in DOMAIN t : t[i] = c }

\* t is a decimal numeral with exactly `places` digits after the point, and
\* the number it shows is within half a unit of its last place of x/32.
ShowsFloat(t, x, places) ==
    /\ Cardinality(Places(t, ".")) = 1
    /\ LET dot == Only(Places(t, "."))
           whole == SubSeq(t, 1, dot - 1)
           frac == SubSeq(t, dot + 1, Len(t))
       IN  /\ IsNumber(whole)
           /\ IsNumber(frac)
           /\ Len(frac) = places
           /\ LET shown == Num(whole) * Pow10(places) + Num(frac)
                  diff == 32 * shown - Pow10(places) * x.n
              IN  diff <= 16 /\ -diff <= 16

\* t is the numeral of n, at least two digits wide.
ShowsEpoch(t, n) == IsNumber(t) /\ Len(t) >= 2 /\ Num(t) = n

\* name is weights-<epoch>-<loss>-<val_loss>.
ShowsWeights(name, epoch, loss, val_loss) ==
    LET dashes == Places(name, "-")
    IN  /\ Cardinality(dashes) = 3
        /\ \E a, b, c \in dashes :
            /\ a < b
            /\ b < c
            /\ SubSeq(name, 1, a - 1) = << "w", "e", "i", "g", "h", "t", "s" >>
            /\ ShowsEpoch(SubSeq(name, a + 1, b - 1), epoch)
            /\ ShowsFloat(SubSeq(name, b + 1, c - 1), loss, 4)
            /\ ShowsFloat(SubSeq(name, c + 1, Len(name)), val_loss, 4)

\* C7: every artifact the checkpoint callback saves is named
\* <model_path>/<experiment_name>/checkpoints/weights-<epoch>-<loss>-<val_loss>:
\* the epoch number two digits wide, then the training loss, then the
\* validation loss, each with four decimals.
CheckpointPath ==
    \A i \in DOMAIN run.written :
        LET w == run.written[i]
        IN  /\ w.path \in fs
            /\ Len(w.path) = 4
            /\ SubSeq(w.path, 1, 3)
                 = << attrs.model_path, attrs.experiment_name, "checkpoints" >>
            /\ ShowsWeights(w.path[4], w.epoch + 1, run.loss[w.epoch + 1],
                            run.val[w.epoch + 1])

CheckpointPathWitness ==
    /\ Len(run.written) = 2
    /\ run.loss = << Float(1), Float(3) >>
    /\ run.val = << Float(3), Float(1) >>

\* C8: the history-persistence step is reached only after the fit loop ran
\* all its epochs, and it fails every time, the file present or not: every
\* train() whose fit loop finishes raises, with the weights moved by every
\* epoch and the run's artifacts on disk, and model_history.pkl never gets
\* a pickled history.
HistoryNeverPersisted ==
    /\ history_pkl # "history"
    /\ lastCall.outcome # "ok" \/ lastCall.op # "train"
    /\ (lastCall.op = "train" /\ lastCall.outcome \in HistoryErrors) =>
        run.epoch = attrs.epochs
    /\ FitFinished =>
        /\ lastCall.outcome
             = IF history_pkl = "absent" THEN "FileNotFoundError" ELSE "TypeError"
        /\ run.epoch = attrs.epochs
        /\ model.weights = run.weights0 + attrs.epochs
        /\ \A i \in DOMAIN run.written : run.written[i].path \in fs

HistoryNeverPersistedWitness ==
    /\ FitFinished
    /\ lastCall.outcome = "TypeError"
    /\ history_pkl = "foreign"
    /\ run.epoch = 2
    /\ Len(run.written) = 2

\* ---- Which epochs improve.

Less(a, b) == a # NaN /\ b # NaN /\ a.n < b.n

\* Epoch i of the run beats every earlier epoch of the run.
ImprovingInRun(val, i) == \A j \in 1..(i - 1) : Less(val[i], val[j])

\* Value k shown to a callback is a number below every number shown before.
ImprovingSeen(seen, k) ==
    /\ seen[k] # NaN
    /\ \A j \in 1..(k - 1) : seen[j] = NaN \/ seen[k].n < seen[j].n

WrittenEpochs == { run.written[i].epoch + 1 : i \in DOMAIN run.written }

\* C9 as stated, for runs whose validation losses are all numbers: in a
\* finished run the callback was consulted once per epoch, one artifact was
\* written per epoch that beat all earlier epochs of that run, and so the
\* first epoch wrote one.
BestOnlyAsStated ==
    (FitFinished /\ \A i \in DOMAIN run.val : run.val[i] # NaN) =>
        /\ run.consults = run.epoch
        /\ WrittenEpochs = { i \in 1..run.epoch : ImprovingInRun(run.val, i) }
        /\ Len(run.written) = Cardinality(WrittenEpochs)

\* C9 amended: the callback is consulted once per epoch and saves exactly at
\* the epochs whose validation loss is a number strictly below every
\* validation loss that callback object has been shown since checkpoint()
\* made it, earlier train() runs included; a NaN loss never saves. So the
\* first epoch of a run saves only in the first run after checkpoint(), or
\* when it beats the earlier runs, and never on NaN.
BestOnly ==
    (lastCall.op = "train" /\ lastCall.outcome \notin Failures) =>
        LET seen == checkpoint_callback.seen
            base == Len(seen) - run.epoch
        IN  /\ run.consults = run.epoch
            /\ base >= 0
            /\ \A i \in 1..run.epoch : seen[base + i] = run.val[i]
            /\ WrittenEpochs = { i \in 1..run.epoch : ImprovingSeen(seen, base + i) }
            /\ Len(run.written) = Cardinality(WrittenEpochs)

BestOnlyWitness ==
    /\ FitFinished
    /\ run.epoch = 2
    /\ Len(checkpoint_callback.seen) = 4
    /\ run.val = << Float(3), Float(1) >>
    /\ WrittenEpochs = { }

\* C10: checkpoint() and tensorboard() succeed in whatever state they are
\* called, each replaces its own callback and leaves the model, the four
\* tensors and the other callback as they were, and a callback is attached
\* to the model only by train() entering fit.
Attached(cb) == cb # None /\ cb.model # None

CallbacksIndependentStep ==
    /\ lastCall'.op = "checkpoint" =>
        /\ lastCall'.outcome = "ok"
        /\ checkpoint_callback' # None
        /\ ~Attached(checkpoint_callback')
        /\ UNCHANGED << model, data, tensorboard_callback >>
    /\ lastCall'.op = "tensorboard" =>
        /\ lastCall'.outcome = "ok"
        /\ tensorboard_callback' # None
        /\ ~Attached(tensorboard_callback')
        /\ UNCHANGED << model, data, checkpoint_callback >>
    /\ (Attached(checkpoint_callback') /\ ~Attached(checkpoint_callback)) =>
        (pc = "idle" /\ pc' = "fit")
    /\ (Attached(tensorboard_callback') /\ ~Attached(tensorboard_callback)) =>
        (pc = "idle" /\ pc' = "fit")

CallbacksIndependent == [][CallbacksIndependentStep]_vars

CallbacksIndependentWitness ==
    /\ lastCall = Call("checkpoint", "ok")
    /\ model = None
    /\ data = NoData
    /\ tensorboard_callback # None

====
